---- MODULE Spec2Model ----
(***************************************************************************)
(* A model of the request/reply layer of easymq (library/src/lib.rs: the   *)
(* client handle RPCHandle, the reply router RPCHandleController and the   *)
(* server RPCHandler), of the typed consumer stream and the typed producer *)
(* (library/src/lapin.rs: LapinConsumer::to_stream, LapinProducer::publish)*)
(* and of the run() of the generated consumer facade                       *)
(* (library_derive/src/lib.rs: hooks_lapin_consumer).                      *)
(*                                                                         *)
(* Every `.await` of the source is a suspension point: the code between    *)
(* two of them is one action.  The broker is the environment: it queues    *)
(* what is published, may fail a call, may close a subscription and may    *)
(* deliver messages nobody of this program published.                      *)
(***************************************************************************)
EXTENDS Naturals, Sequences, FiniteSets, Bags, TLC

\* ------------------------------------------------------------------ bounds

\* concurrent send() calls (one per caller task)
NumCallers == 2
\* size of the sample of the uuid space that Uuid::new_v4() draws from
MaxUuid == 2
\* messages the environment publishes on its own (forged, duplicate, late)
MaxInject == 1
\* transport failures (a failed publish, receive or ack) in one run
MaxFaults == 1
\* messages published to the queue of the typed consumer
NumMsgs == 2
\* concurrent LapinProducer::publish calls
NumPublishes == 3
\* messages published to each route of the consumer-side multiplexer
MaxRouteMsgs == 2

Callers == 1..NumCallers
Uuids == 1..MaxUuid
Msgs == 1..NumMsgs
Publishes == 1..NumPublishes
\* the routes (methods) of the trait the consumer facade is generated for
Routes == {"A", "B"}

\* ------------------------------------------------------------ pure helpers

\* the values caller c may pass to send(): an ordinary value of its own, or
\* a value whose serde Serialize implementation reports an error
Inputs(c) == {<<"in", c>>, <<"unser", c>>}

NoValue == <<"none", 0>>

\* the user-supplied driver, of the integration test's type
\* Input -> Result<Output, ()>: a total function of the decoded input that
\* reports a failure as the value Err(()) for the inputs it rejects
Handler(i) == IF i[1] = "bad" THEN <<"err", i[2]>> ELSE <<"ret", i[2]>>

\* postcard::to_allocvec: the encoded bytes, or an error
ToAllocvec(v) ==
    IF v[1] = "unser" THEN [ok |-> FALSE, bytes |-> [enc |-> "none", val |-> NoValue]]
    ELSE [ok |-> TRUE, bytes |-> [enc |-> "postcard", val |-> v]]

\* postcard::from_bytes: the decoded value, or an error on bytes that are
\* not an encoding of the expected type
FromBytes(b) ==
    IF b.enc = "postcard" THEN [ok |-> TRUE, val |-> b.val]
    ELSE [ok |-> FALSE, val |-> NoValue]

\* a correlation_id property as it travels: absent, or a string.  A string
\* is a uuid in one of the textual forms Uuid::from_str accepts, or garbage.
CorrAbsent == [fmt |-> "absent", uuid |-> 0]
CorrGarbage == [fmt |-> "garbage", uuid |-> 0]

\* Uuid::to_string: the hyphenated form
UuidToString(u) == [fmt |-> "hyphenated", uuid |-> u]

\* Uuid::from_str: hyphenated and simple forms parse to the same uuid
UuidFromStr(s) ==
    IF s.fmt \in {"hyphenated", "simple"} THEN [ok |-> TRUE, uuid |-> s.uuid]
    ELSE [ok |-> FALSE, uuid |-> 0]

\* the queue the controller consumes replies from (routing_response_key)
ResponseQueue == "hello_response"
\* some other queue a foreign request may name as its reply_to
OtherQueue == "elsewhere"
ReplyToAbsent == "absent"

GarbageBytes == [enc |-> "garbage", val |-> NoValue]
NoDelivery == [reply_to |-> ReplyToAbsent, corr |-> CorrAbsent,
               data |-> [enc |-> "none", val |-> NoValue], mode |-> 0]

\* ------------------------------------------------------------------- state

VARIABLES
    \* RPCHandle::send, one call per caller
    pc,          \* idle, published, awaiting, done, failed, dropped
    input,       \* the argument of the call
    id,          \* request_id of the call (0 before it is generated)
    slot,        \* what the call's oneshot receiver holds
    txLost,      \* the call's oneshot sender was dropped without a send
    result,      \* what send() returned
    map,         \* DashMap<Uuid, Sender>: uuid -> the call owning the sender, 0: no entry
    completions, \* history: tx.send calls on the call's sender
    \* broker
    reqQ,        \* request queue
    replyQ,      \* reply queue
    reqSub,      \* the server's subscription: open, closed
    replySub,    \* the router's subscription: open, closed
    injected,    \* messages published by the environment so far
    faults,      \* transport failures so far
    \* RPCHandler::run
    srvPc,       \* next, ack, handler, publishing, returned
    srvCur,      \* the delivery being handled
    srvResult,   \* what run() returned
    invoked,     \* history: the inputs the driver was called with
    srvAcked,    \* history: number of requests acknowledged
    srvSent,     \* history: the replies published, each with the request in hand
    reqUnacked,  \* broker: requests delivered whose ack failed
    \* RPCHandleController::run
    rtrPc,       \* running, returned
    rtrResult,   \* what run() returned
    rtrLast,     \* history: what the last loop iteration did, and for which uuid
    confirmSelect, \* transport: the channels put in confirm mode (client, server)
    confirm,     \* send(): what the publish of the call resolved to
    reply_confirm, \* handle_request: what the publish of the reply resolved to
    replyUnacked, \* broker: bag of the reply deliveries handed to the router and not acknowledged
    \* the broker queue a LapinConsumer is subscribed to
    conQ,        \* messages waiting for delivery
    conSub,      \* the subscription: open, closed
    conUnacked,  \* messages delivered and not acknowledged
    conSent,     \* messages published to the queue so far
    conData,     \* the bytes of each message
    conFaults,   \* transport failures on this subscription so far
    \* LapinConsumer::to_stream
    conPc,       \* next, ack
    conHeld,     \* the message whose ack is pending (0: none)
    conLast,     \* history: the element the stream yielded last
    recvCount,   \* history: deliveries of each message to the stream
    ackCalls,    \* history: ack calls the stream made for each message
    ackOk,       \* history: acks of each message the broker accepted
    yieldedOk,   \* history: Some(Ok(_)) elements yielded for each message
    yieldedDesErr, \* history: DeserializationError elements for each message
    \* LapinProducer::publish, one call per publish
    prodPc,      \* idle, sent, returned
    prodConf,    \* the Confirmation the broker answered the publish with
    prodResult,  \* what publish() returned
    prodQ,       \* the messages the broker has queued
    prodFaults,  \* transport failures on the producer's channel so far
    \* the queues the routes of the generated consumer facade consume
    muxQ,        \* per route: messages waiting for delivery
    muxSub,      \* per route: the subscription: open, closed
    muxSent,     \* per route: messages published so far
    muxFaults,   \* transport failures on the facade's channel so far
    \* the generated run()
    muxPc,       \* select, dispatch, returned
    muxStream,   \* per route: where its to_stream() is: next, ack
    muxHeld,     \* per route: the delivery whose ack is pending
    muxResult,   \* what run() returned
    muxLast,     \* history: what the select branch that ran did
    muxDispatched, \* history: the calls made on the dispatch target
    muxLeft      \* history: routes with a message still undelivered when run() returned

rpcVars == <<pc, input, id, slot, txLost, result, map, completions, reqQ,
             replyQ, reqSub, replySub, injected, faults, srvPc, srvCur,
             srvResult, invoked, srvAcked, srvSent, reqUnacked, rtrPc,
             rtrResult, rtrLast, replyUnacked, confirmSelect, confirm,
             reply_confirm>>

conVars == <<conQ, conSub, conUnacked, conSent, conData, conFaults, conPc,
             conHeld, conLast, recvCount, ackCalls, ackOk, yieldedOk,
             yieldedDesErr>>

prodVars == <<prodPc, prodConf, prodResult, prodQ, prodFaults>>

muxVars == <<muxQ, muxSub, muxSent, muxFaults, muxPc, muxStream, muxHeld,
             muxResult, muxLast, muxDispatched, muxLeft>>

\* what the request/reply layer leaves alone
otherVars == <<conVars, prodVars, muxVars>>

\* what the typed consumer leaves alone
conOthers == <<rpcVars, prodVars, muxVars>>

\* what the typed producer leaves alone
prodOthers == <<rpcVars, conVars, muxVars>>

\* what the consumer facade leaves alone
muxOthers == <<rpcVars, conVars, prodVars>>

vars == <<rpcVars, conVars, prodVars, muxVars>>

Init ==
    /\ pc = [c \in Callers |-> "idle"]
    /\ input = [c \in Callers |-> NoValue]
    /\ id = [c \in Callers |-> 0]
    /\ slot = [c \in Callers |-> NoDelivery]
    /\ txLost = [c \in Callers |-> FALSE]
    /\ result = [c \in Callers |-> [kind |-> "none", val |-> NoValue]]
    /\ map = [u \in Uuids |-> 0]
    /\ completions = [c \in Callers |-> 0]
    /\ reqQ = << >>
    /\ replyQ = << >>
    /\ reqSub = "open"
    /\ replySub = "open"
    /\ injected = 0
    /\ faults = 0
    /\ srvPc = "next"
    /\ srvCur = NoDelivery
    /\ srvResult = "none"
    /\ invoked = << >>
    /\ srvAcked = 0
    /\ srvSent = << >>
    /\ reqUnacked = << >>
    /\ replyUnacked = EmptyBag
    /\ confirmSelect = {}
    /\ confirm = [c \in Callers |-> "none"]
    /\ reply_confirm = "none"
    /\ rtrPc = "running"
    /\ rtrResult = "none"
    /\ rtrLast = [what |-> "none", uuid |-> 0]
    /\ conQ = << >>
    /\ conSub = "open"
    /\ conUnacked = {}
    /\ conSent = 0
    /\ conData = [m \in Msgs |-> [enc |-> "none", val |-> NoValue]]
    /\ conFaults = 0
    /\ conPc = "next"
    /\ conHeld = 0
    /\ conLast = "none"
    /\ recvCount = [m \in Msgs |-> 0]
    /\ ackCalls = [m \in Msgs |-> 0]
    /\ ackOk = [m \in Msgs |-> 0]
    /\ yieldedOk = [m \in Msgs |-> 0]
    /\ yieldedDesErr = [m \in Msgs |-> 0]
    /\ prodPc = [p \in Publishes |-> "idle"]
    /\ prodConf = [p \in Publishes |-> "none"]
    /\ prodResult = [p \in Publishes |-> "none"]
    /\ prodQ = << >>
    /\ prodFaults = 0
    /\ muxQ = [r \in Routes |-> << >>]
    /\ muxSub = [r \in Routes |-> "open"]
    /\ muxSent = [r \in Routes |-> 0]
    /\ muxFaults = 0
    /\ muxPc = "select"
    /\ muxStream = [r \in Routes |-> "next"]
    /\ muxHeld = [r \in Routes |-> [enc |-> "none", val |-> NoValue]]
    /\ muxResult = "none"
    /\ muxLast = "none"
    /\ muxDispatched = << >>
    /\ muxLeft = {}

\* --------------------------------------------------------- RPCHandle::send

Returned(kind, val) == [kind |-> kind, val |-> val]

\* the envelope send() publishes: reply_to, delivery mode 2, correlation id
RequestEnvelope(u, bytes) ==
    [reply_to |-> ResponseQueue, corr |-> UuidToString(u), data |-> bytes, mode |-> 2]

\* to_allocvec(&input)? fails: send returns before anything else happens
SendSerializeFail(c, i) ==
    /\ pc[c] = "idle"
    /\ ~ToAllocvec(i).ok
    /\ pc' = [pc EXCEPT ![c] = "failed"]
    /\ input' = [input EXCEPT ![c] = i]
    /\ result' = [result EXCEPT ![c] = Returned("SerializationError", NoValue)]
    /\ UNCHANGED <<id, slot, txLost, map, completions, reqQ, replyQ, reqSub,
                   replySub, injected, faults, srvPc, srvCur, srvResult,
                   invoked, srvAcked, rtrPc, rtrResult, rtrLast>>
    /\ UNCHANGED <<srvSent, reqUnacked, replyUnacked>>
    /\ UNCHANGED <<confirmSelect, confirm, reply_confirm>>
    /\ UNCHANGED otherVars

\* what basic_publish(..).await?.await? resolves to on the channel of one
\* side: NotRequested unless the channel is in confirm mode, the broker's
\* Ack or Nack when it is
PublisherConfirm(side) ==
    IF side \in confirmSelect THEN {"Ack", "Nack"} ELSE {"NotRequested"}

\* the broker has queued what it did not refuse with a Nack
BrokerQueued(conf) == conf # "Nack"

\* a send() that registers its slot first and publishes afterwards
SendPublish_RegisterFirst(c, i, u) ==
    /\ pc[c] = "idle"
    /\ ToAllocvec(i).ok
    /\ pc' = [pc EXCEPT ![c] = "published"]
    /\ input' = [input EXCEPT ![c] = i]
    /\ id' = [id EXCEPT ![c] = u]
    /\ map' = [map EXCEPT ![u] = c]
    /\ \E conf \in PublisherConfirm("client") :
          /\ confirm' = [confirm EXCEPT ![c] = conf]
          /\ reqQ' = IF BrokerQueued(conf)
                     THEN Append(reqQ, RequestEnvelope(u, ToAllocvec(i).bytes))
                     ELSE reqQ
    /\ UNCHANGED <<slot, txLost, result, completions, replyQ, reqSub,
                   replySub, injected, faults, srvPc, srvCur, srvResult,
                   invoked, srvAcked, rtrPc, rtrResult, rtrLast>>
    /\ UNCHANGED <<srvSent, reqUnacked, replyUnacked>>
    /\ UNCHANGED <<confirmSelect, reply_confirm>>
    /\ UNCHANGED otherVars

\* serialize, Uuid::new_v4(), basic_publish: the request is on its way and
\* the call is suspended on the publish.  new_v4 is a random draw: u is any
\* uuid, one drawn before included (send() does not look at the table).
SendPublish(c, i, u) ==
    /\ pc[c] = "idle"
    /\ ToAllocvec(i).ok
    /\ pc' = [pc EXCEPT ![c] = "published"]
    /\ input' = [input EXCEPT ![c] = i]
    /\ id' = [id EXCEPT ![c] = u]
    /\ \E conf \in PublisherConfirm("client") :
          /\ confirm' = [confirm EXCEPT ![c] = conf]
          /\ reqQ' = IF BrokerQueued(conf)
                     THEN Append(reqQ, RequestEnvelope(u, ToAllocvec(i).bytes))
                     ELSE reqQ
    /\ UNCHANGED <<slot, txLost, result, map, completions, replyQ, reqSub,
                   replySub, injected, faults, srvPc, srvCur, srvResult,
                   invoked, srvAcked, rtrPc, rtrResult, rtrLast>>
    /\ UNCHANGED <<srvSent, reqUnacked, replyUnacked>>
    /\ UNCHANGED <<confirmSelect, reply_confirm>>
    /\ UNCHANGED otherVars

\* a send() whose slot is already in the table when the publish fails
SendPublishFail_Registered(c, i, u) ==
    /\ pc[c] = "idle"
    /\ ToAllocvec(i).ok
    /\ faults < MaxFaults
    /\ faults' = faults + 1
    /\ pc' = [pc EXCEPT ![c] = "failed"]
    /\ input' = [input EXCEPT ![c] = i]
    /\ id' = [id EXCEPT ![c] = u]
    /\ map' = [map EXCEPT ![u] = c]
    /\ result' = [result EXCEPT ![c] = [kind |-> "LapinError", val |-> NoValue]]
    /\ UNCHANGED <<slot, txLost, completions, reqQ, replyQ, reqSub,
                   replySub, injected, srvPc, srvCur, srvResult, invoked,
                   srvAcked, rtrPc, rtrResult, rtrLast>>
    /\ UNCHANGED <<srvSent, reqUnacked, replyUnacked>>
    /\ UNCHANGED <<confirmSelect, confirm, reply_confirm>>
    /\ UNCHANGED otherVars

\* basic_publish(..).await? fails: send returns the transport error
SendPublishFail(c, i, u) ==
    /\ pc[c] = "idle"
    /\ ToAllocvec(i).ok
    /\ faults < MaxFaults
    /\ faults' = faults + 1
    /\ pc' = [pc EXCEPT ![c] = "failed"]
    /\ input' = [input EXCEPT ![c] = i]
    /\ id' = [id EXCEPT ![c] = u]
    /\ result' = [result EXCEPT ![c] = Returned("LapinError", NoValue)]
    /\ UNCHANGED <<slot, txLost, map, completions, reqQ, replyQ, reqSub,
                   replySub, injected, srvPc, srvCur, srvResult, invoked,
                   srvAcked, rtrPc, rtrResult, rtrLast>>
    /\ UNCHANGED <<srvSent, reqUnacked, replyUnacked>>
    /\ UNCHANGED <<confirmSelect, confirm, reply_confirm>>
    /\ UNCHANGED otherVars

\* DashMap::insert: the entry under u now holds c's sender; a sender that
\* was stored under u before is dropped
MapInsert(m, u, c) == [m EXCEPT ![u] = c]

\* a send() that registers its slot before it looks at the confirmation
SendAssertFail_AfterInsert(c) ==
    /\ pc[c] = "published"
    /\ confirm[c] # "NotRequested"
    /\ pc' = [pc EXCEPT ![c] = "panicked"]
    /\ map' = MapInsert(map, id[c], c)
    /\ UNCHANGED <<input, id, slot, txLost, result, completions, reqQ,
                   replyQ, reqSub, replySub, injected, faults, srvPc, srvCur,
                   srvResult, invoked, srvAcked, rtrPc, rtrResult, rtrLast>>
    /\ UNCHANGED <<srvSent, reqUnacked, replyUnacked>>
    /\ UNCHANGED <<confirmSelect, confirm, reply_confirm>>
    /\ UNCHANGED otherVars

\* the publish has resumed with an Ack or a Nack:
\* assert_eq!(confirm, Confirmation::NotRequested) panics, before
\* oneshot::channel() and self.map.insert
SendAssertFail(c) ==
    /\ pc[c] = "published"
    /\ confirm[c] # "NotRequested"
    /\ pc' = [pc EXCEPT ![c] = "panicked"]
    /\ UNCHANGED <<input, id, slot, txLost, result, map, completions, reqQ,
                   replyQ, reqSub, replySub, injected, faults, srvPc, srvCur,
                   srvResult, invoked, srvAcked, rtrPc, rtrResult, rtrLast>>
    /\ UNCHANGED <<srvSent, reqUnacked, replyUnacked>>
    /\ UNCHANGED <<confirmSelect, confirm, reply_confirm>>
    /\ UNCHANGED otherVars

\* the publish has resumed with NotRequested, the assertion holds:
\* oneshot::channel(), self.map.insert(request_id, tx)
SendRegister(c) ==
    /\ pc[c] = "published"
    /\ confirm[c] = "NotRequested"
    /\ pc' = [pc EXCEPT ![c] = "awaiting"]
    /\ map' = MapInsert(map, id[c], c)
    /\ txLost' = [d \in Callers |->
                    IF d = map[id[c]] /\ d # c THEN TRUE ELSE txLost[d]]
    /\ UNCHANGED <<input, id, slot, result, completions, reqQ, replyQ, reqSub,
                   replySub, injected, faults, srvPc, srvCur, srvResult,
                   invoked, srvAcked, rtrPc, rtrResult, rtrLast>>
    /\ UNCHANGED <<srvSent, reqUnacked, replyUnacked>>
    /\ UNCHANGED <<confirmSelect, confirm, reply_confirm>>
    /\ UNCHANGED otherVars

\* rx.await resumes with the delivery; from_bytes::<Output>(&delivery.data)?
SendResolve(c) ==
    /\ pc[c] = "awaiting"
    /\ slot[c] # NoDelivery
    /\ LET out == FromBytes(slot[c].data)
       IN  IF out.ok
           THEN /\ pc' = [pc EXCEPT ![c] = "done"]
                /\ result' = [result EXCEPT ![c] = Returned("Ok", out.val)]
           ELSE /\ pc' = [pc EXCEPT ![c] = "failed"]
                /\ result' = [result EXCEPT ![c] = Returned("SerializationError", NoValue)]
    /\ UNCHANGED <<input, id, slot, txLost, map, completions, reqQ, replyQ,
                   reqSub, replySub, injected, faults, srvPc, srvCur,
                   srvResult, invoked, srvAcked, rtrPc, rtrResult, rtrLast>>
    /\ UNCHANGED <<srvSent, reqUnacked, replyUnacked>>
    /\ UNCHANGED <<confirmSelect, confirm, reply_confirm>>
    /\ UNCHANGED otherVars

\* a send() that takes the entry under its id out of the table when it
\* returns the RecvError
SendRecvError_Cleanup(c) ==
    /\ pc[c] = "awaiting"
    /\ slot[c] = NoDelivery
    /\ txLost[c]
    /\ pc' = [pc EXCEPT ![c] = "failed"]
    /\ map' = [map EXCEPT ![id[c]] = 0]
    /\ result' = [result EXCEPT ![c] = Returned("RecvError", NoValue)]
    /\ UNCHANGED <<input, id, slot, txLost, completions, reqQ, replyQ,
                   reqSub, replySub, injected, faults, srvPc, srvCur,
                   srvResult, invoked, srvAcked, rtrPc, rtrResult, rtrLast>>
    /\ UNCHANGED <<srvSent, reqUnacked, replyUnacked>>
    /\ UNCHANGED <<confirmSelect, confirm, reply_confirm>>
    /\ UNCHANGED otherVars

\* rx.await? resumes with RecvError: the sender was dropped unsent
SendRecvError(c) ==
    /\ pc[c] = "awaiting"
    /\ slot[c] = NoDelivery
    /\ txLost[c]
    /\ pc' = [pc EXCEPT ![c] = "failed"]
    /\ result' = [result EXCEPT ![c] = Returned("RecvError", NoValue)]
    /\ UNCHANGED <<input, id, slot, txLost, map, completions, reqQ, replyQ,
                   reqSub, replySub, injected, faults, srvPc, srvCur,
                   srvResult, invoked, srvAcked, rtrPc, rtrResult, rtrLast>>
    /\ UNCHANGED <<srvSent, reqUnacked, replyUnacked>>
    /\ UNCHANGED <<confirmSelect, confirm, reply_confirm>>
    /\ UNCHANGED otherVars

\* a drop of the send() future that takes the call's entry out of the table
SendAbandon_Cleanup(c) ==
    /\ pc[c] = "awaiting"
    /\ pc' = [pc EXCEPT ![c] = "dropped"]
    /\ map' = [u \in Uuids |-> IF map[u] = c THEN 0 ELSE map[u]]
    /\ UNCHANGED <<input, id, slot, txLost, result, completions, reqQ,
                   replyQ, reqSub, replySub, injected, faults, srvPc, srvCur,
                   srvResult, invoked, srvAcked, rtrPc, rtrResult, rtrLast>>
    /\ UNCHANGED <<srvSent, reqUnacked, replyUnacked>>
    /\ UNCHANGED <<confirmSelect, confirm, reply_confirm>>
    /\ UNCHANGED otherVars

\* the caller drops the send() future while it waits on rx (a drop while the
\* publish is pending leaves the same state as a call that never resumes)
SendAbandon(c) ==
    /\ pc[c] = "awaiting"
    /\ pc' = [pc EXCEPT ![c] = "dropped"]
    /\ UNCHANGED <<input, id, slot, txLost, result, map, completions, reqQ,
                   replyQ, reqSub, replySub, injected, faults, srvPc, srvCur,
                   srvResult, invoked, srvAcked, rtrPc, rtrResult, rtrLast>>
    /\ UNCHANGED <<srvSent, reqUnacked, replyUnacked>>
    /\ UNCHANGED <<confirmSelect, confirm, reply_confirm>>
    /\ UNCHANGED otherVars

\* ----------------------------------------------- RPCHandleController::run

\* a lookup that leaves the entry in the table (DashMap::get)
MapRemove_Keep(m, u) == m

\* DashMap::remove(&request_id)
MapRemove(m, u) == [m EXCEPT ![u] = 0]

\* a lookup that falls back to any pending entry when the key is absent
RouterLookup_Any(m, u) ==
    IF m[u] # 0 THEN m[u]
    ELSE IF \E k \in Uuids : m[k] # 0 THEN m[CHOOSE k \in Uuids : m[k] # 0]
    ELSE 0

\* the sender self.map.remove(&request_id) returns: its owner, 0 for None
RouterLookup(m, u) == m[u]

\* let _ = tx.send(delivery): the receiver gets the delivery unless it was
\* dropped, and the outcome is ignored
TxSend(c, d) ==
    /\ slot' = [slot EXCEPT ![c] = IF pc[c] = "dropped" THEN @ ELSE d]
    /\ completions' = [completions EXCEPT ![c] = @ + 1]

\* a `?` inside the loop: run() returns the error
RouterReturn(e) ==
    /\ rtrPc' = "returned"
    /\ rtrResult' = e
    /\ rtrLast' = [what |-> "error", uuid |-> 0]
    /\ UNCHANGED <<map, slot, completions>>

\* a dispatch that treats an unknown id as an error of the loop
RouterDispatch_Strict(u, d) ==
    IF RouterLookup(map, u) # 0
    THEN /\ UNCHANGED <<rtrPc, rtrResult>>
         /\ map' = MapRemove(map, u)
         /\ TxSend(RouterLookup(map, u), d)
         /\ rtrLast' = [what |-> "matched", uuid |-> u]
    ELSE RouterReturn("CorrelationIdNotFound")

\* a dispatch that returns the failed tx.send of an abandoned call from the
\* loop
RouterDispatch_FailOnDropped(u, d) ==
    /\ map' = MapRemove(map, u)
    /\ IF RouterLookup(map, u) # 0
       THEN /\ TxSend(RouterLookup(map, u), d)
            /\ rtrLast' = [what |-> "matched", uuid |-> u]
            /\ IF pc[RouterLookup(map, u)] = "dropped"
               THEN rtrPc' = "returned" /\ rtrResult' = "RecvError"
               ELSE UNCHANGED <<rtrPc, rtrResult>>
       ELSE /\ rtrLast' = [what |-> "orphan", uuid |-> u]
            /\ UNCHANGED <<slot, completions, rtrPc, rtrResult>>

\* if let Some((_key, tx)) = self.map.remove(&request_id) { tx.send(..) }
RouterDispatch(u, d) ==
    /\ UNCHANGED <<rtrPc, rtrResult>>
    /\ map' = MapRemove(map, u)
    /\ IF RouterLookup(map, u) # 0
       THEN /\ TxSend(RouterLookup(map, u), d)
            /\ rtrLast' = [what |-> "matched", uuid |-> u]
       ELSE /\ rtrLast' = [what |-> "orphan", uuid |-> u]
            /\ UNCHANGED <<slot, completions>>

\* a loop that acknowledges the deliveries it hands to a waiting call
RouterHold_AckMatched(d) ==
    IF /\ d.corr # CorrAbsent
       /\ UuidFromStr(d.corr).ok
       /\ RouterLookup(map, UuidFromStr(d.corr).uuid) # 0
    THEN replyUnacked
    ELSE replyUnacked (+) SetToBag({d})

\* the consumer is created with BasicConsumeOptions::default(), no_ack
\* false, and no path of the loop calls delivery.ack: the broker keeps the
\* delivery it handed over as unacknowledged
RouterHold(d) == replyUnacked (+) SetToBag({d})

\* one iteration of the loop on a delivery the subscription yields
RouterDeliver ==
    /\ rtrPc = "running"
    /\ replySub = "open"
    /\ replyQ # << >>
    /\ replyQ' = Tail(replyQ)
    /\ LET d == Head(replyQ)
       IN  IF d.corr = CorrAbsent THEN RouterReturn("CorrelationIdNotFound")
           ELSE IF ~UuidFromStr(d.corr).ok THEN RouterReturn("CorrelationIdNotUuid")
           ELSE RouterDispatch(UuidFromStr(d.corr).uuid, d)
    /\ replyUnacked' = RouterHold(Head(replyQ))
    /\ UNCHANGED <<pc, input, id, txLost, result, reqQ, reqSub, replySub,
                   injected, faults, srvPc, srvCur, srvResult, invoked,
                   srvAcked>>
    /\ UNCHANGED <<srvSent, reqUnacked>>
    /\ UNCHANGED <<confirmSelect, confirm, reply_confirm>>
    /\ UNCHANGED otherVars

\* the subscription yields Some(Err(e)): `delivery?` returns it
RouterRecvError ==
    /\ rtrPc = "running"
    /\ replySub = "open"
    /\ faults < MaxFaults
    /\ faults' = faults + 1
    /\ RouterReturn("LapinError")
    /\ UNCHANGED <<pc, input, id, txLost, result, reqQ, replyQ, reqSub,
                   replySub, injected, srvPc, srvCur, srvResult, invoked,
                   srvAcked>>
    /\ UNCHANGED <<srvSent, reqUnacked, replyUnacked>>
    /\ UNCHANGED <<confirmSelect, confirm, reply_confirm>>
    /\ UNCHANGED otherVars

\* the subscription yields None: the loop ends and run() returns Ok(())
RouterClosed ==
    /\ rtrPc = "running"
    /\ replySub = "closed"
    /\ rtrPc' = "returned"
    /\ rtrResult' = "Ok"
    /\ UNCHANGED <<pc, input, id, slot, txLost, result, map, completions, reqQ,
                   replyQ, reqSub, replySub, injected, faults, srvPc, srvCur,
                   srvResult, invoked, srvAcked, rtrLast>>
    /\ UNCHANGED <<srvSent, reqUnacked, replyUnacked>>
    /\ UNCHANGED <<confirmSelect, confirm, reply_confirm>>
    /\ UNCHANGED otherVars

\* ------------------------------------------------------------ RPCHandler

\* a `?` in handle_request or in run: run() returns the error
ServerReturn(e) ==
    /\ srvPc' = "returned"
    /\ srvResult' = e

\* a server that reads the next request while the reply of the one before
\* is still being published
ServerNext_Pipelined ==
    /\ srvPc \in {"next", "publishing"}
    /\ reqSub = "open"
    /\ reqQ # << >>
    /\ srvCur' = Head(reqQ)
    /\ reqQ' = Tail(reqQ)
    /\ srvPc' = "ack"
    /\ UNCHANGED <<pc, input, id, slot, txLost, result, map, completions,
                   replyQ, reqSub, replySub, injected, faults, srvResult,
                   invoked, srvAcked, rtrPc, rtrResult, rtrLast>>
    /\ UNCHANGED <<srvSent, reqUnacked, replyUnacked>>
    /\ UNCHANGED <<confirmSelect, confirm, reply_confirm>>
    /\ UNCHANGED otherVars

\* self.listener.next() yields Some(Ok(delivery)); handle_request starts and
\* suspends on the ack
ServerNext ==
    /\ srvPc = "next"
    /\ reqSub = "open"
    /\ reqQ # << >>
    /\ srvCur' = Head(reqQ)
    /\ reqQ' = Tail(reqQ)
    /\ srvPc' = "ack"
    /\ UNCHANGED <<pc, input, id, slot, txLost, result, map, completions,
                   replyQ, reqSub, replySub, injected, faults, srvResult,
                   invoked, srvAcked, rtrPc, rtrResult, rtrLast>>
    /\ UNCHANGED <<srvSent, reqUnacked, replyUnacked>>
    /\ UNCHANGED <<confirmSelect, confirm, reply_confirm>>
    /\ UNCHANGED otherVars

\* self.listener.next() yields Some(Err(e)): `delivery?` returns it
ServerRecvError ==
    /\ srvPc = "next"
    /\ reqSub = "open"
    /\ faults < MaxFaults
    /\ faults' = faults + 1
    /\ ServerReturn("LapinError")
    /\ UNCHANGED <<pc, input, id, slot, txLost, result, map, completions, reqQ,
                   replyQ, reqSub, replySub, injected, srvCur, invoked,
                   srvAcked, rtrPc, rtrResult, rtrLast>>
    /\ UNCHANGED <<srvSent, reqUnacked, replyUnacked>>
    /\ UNCHANGED <<confirmSelect, confirm, reply_confirm>>
    /\ UNCHANGED otherVars

\* self.listener.next() yields None: run() returns Ok(())
ServerClosed ==
    /\ srvPc = "next"
    /\ reqSub = "closed"
    /\ ServerReturn("Ok")
    /\ UNCHANGED <<pc, input, id, slot, txLost, result, map, completions, reqQ,
                   replyQ, reqSub, replySub, injected, faults, srvCur, invoked,
                   srvAcked, rtrPc, rtrResult, rtrLast>>
    /\ UNCHANGED <<srvSent, reqUnacked, replyUnacked>>
    /\ UNCHANGED <<confirmSelect, confirm, reply_confirm>>
    /\ UNCHANGED otherVars

\* a server that skips a request whose payload does not decode and goes on
\* with the next one
ServerAck_SkipBad ==
    /\ srvPc = "ack"
    /\ srvAcked' = srvAcked + 1
    /\ IF FromBytes(srvCur.data).ok
       THEN /\ srvPc' = "handler"
            /\ invoked' = Append(invoked, FromBytes(srvCur.data).val)
       ELSE /\ srvPc' = "next"
            /\ UNCHANGED invoked
    /\ UNCHANGED <<pc, input, id, slot, txLost, result, map, completions, reqQ,
                   replyQ, reqSub, replySub, injected, faults, srvCur,
                   srvResult, rtrPc, rtrResult, rtrLast>>
    /\ UNCHANGED <<srvSent, reqUnacked, replyUnacked>>
    /\ UNCHANGED <<confirmSelect, confirm, reply_confirm>>
    /\ UNCHANGED otherVars

\* a server that looks for reply_to and correlation_id before it calls the
\* driver
ServerAck_CheckFirst ==
    /\ srvPc = "ack"
    /\ srvAcked' = srvAcked + 1
    /\ IF ~FromBytes(srvCur.data).ok
       THEN ServerReturn("SerializationError") /\ UNCHANGED invoked
       ELSE IF srvCur.reply_to = ReplyToAbsent
       THEN ServerReturn("DidNotRecieveReply") /\ UNCHANGED invoked
       ELSE IF srvCur.corr = CorrAbsent
       THEN ServerReturn("CorrelationIdNotFound") /\ UNCHANGED invoked
       ELSE /\ srvPc' = "handler"
            /\ invoked' = Append(invoked, FromBytes(srvCur.data).val)
            /\ UNCHANGED srvResult
    /\ UNCHANGED <<pc, input, id, slot, txLost, result, map, completions, reqQ,
                   replyQ, reqSub, replySub, injected, faults, srvCur, rtrPc,
                   rtrResult, rtrLast>>
    /\ UNCHANGED <<srvSent, reqUnacked, replyUnacked>>
    /\ UNCHANGED <<confirmSelect, confirm, reply_confirm>>
    /\ UNCHANGED otherVars

\* incoming.ack(..).await? succeeded; from_bytes::<Input>(&incoming.data)?;
\* (self.f)(input_data) is called and awaited
ServerAck ==
    /\ srvPc = "ack"
    /\ srvAcked' = srvAcked + 1
    /\ IF FromBytes(srvCur.data).ok
       THEN /\ srvPc' = "handler"
            /\ invoked' = Append(invoked, FromBytes(srvCur.data).val)
            /\ UNCHANGED srvResult
       ELSE /\ ServerReturn("SerializationError")
            /\ UNCHANGED invoked
    /\ UNCHANGED <<pc, input, id, slot, txLost, result, map, completions, reqQ,
                   replyQ, reqSub, replySub, injected, faults, srvCur, rtrPc,
                   rtrResult, rtrLast>>
    /\ UNCHANGED <<srvSent, reqUnacked, replyUnacked>>
    /\ UNCHANGED <<confirmSelect, confirm, reply_confirm>>
    /\ UNCHANGED otherVars

\* a server that calls the driver first and acknowledges afterwards: the
\* ack fails with the driver already invoked
ServerAckFail_AfterHandler ==
    /\ srvPc = "ack"
    /\ faults < MaxFaults
    /\ faults' = faults + 1
    /\ ServerReturn("LapinError")
    /\ invoked' = IF FromBytes(srvCur.data).ok
                  THEN Append(invoked, FromBytes(srvCur.data).val)
                  ELSE invoked
    /\ reqUnacked' = Append(reqUnacked, srvCur)
    /\ UNCHANGED <<pc, input, id, slot, txLost, result, map, completions, reqQ,
                   replyQ, reqSub, replySub, injected, srvCur, srvAcked,
                   rtrPc, rtrResult, rtrLast>>
    /\ UNCHANGED <<srvSent, replyUnacked>>
    /\ UNCHANGED <<confirmSelect, confirm, reply_confirm>>
    /\ UNCHANGED otherVars

\* incoming.ack(..).await? fails: the delivery stays unacknowledged at the
\* broker
ServerAckFail ==
    /\ srvPc = "ack"
    /\ faults < MaxFaults
    /\ faults' = faults + 1
    /\ ServerReturn("LapinError")
    /\ reqUnacked' = Append(reqUnacked, srvCur)
    /\ UNCHANGED <<pc, input, id, slot, txLost, result, map, completions, reqQ,
                   replyQ, reqSub, replySub, injected, srvCur, invoked,
                   srvAcked, rtrPc, rtrResult, rtrLast>>
    /\ UNCHANGED <<srvSent, replyUnacked>>
    /\ UNCHANGED <<confirmSelect, confirm, reply_confirm>>
    /\ UNCHANGED otherVars

\* a reply envelope that does not carry the request's correlation id
ReplyEnvelope_NoId(req, bytes) ==
    [reply_to |-> ReplyToAbsent, corr |-> CorrAbsent, data |-> bytes, mode |-> 2]

\* the envelope handle_request publishes: delivery mode 2 and the request's
\* correlation id (cloned), no reply_to
ReplyEnvelope(req, bytes) ==
    [reply_to |-> ReplyToAbsent, corr |-> req.corr, data |-> bytes, mode |-> 2]

\* a server whose run() returns when the driver reports a failure
ServerHandlerDone_FatalOnErr ==
    /\ srvPc = "handler"
    /\ LET value == Handler(FromBytes(srvCur.data).val)
           payload == ToAllocvec(value)
       IN  IF ~payload.ok \/ value[1] = "err"
           THEN ServerReturn("SerializationError") /\ UNCHANGED <<replyQ, srvSent, reply_confirm>>
           ELSE IF srvCur.reply_to = ReplyToAbsent
           THEN ServerReturn("DidNotRecieveReply") /\ UNCHANGED <<replyQ, srvSent, reply_confirm>>
           ELSE IF srvCur.corr = CorrAbsent
           THEN ServerReturn("CorrelationIdNotFound") /\ UNCHANGED <<replyQ, srvSent, reply_confirm>>
           ELSE /\ srvPc' = "publishing"
                /\ UNCHANGED srvResult
                /\ \E conf \in PublisherConfirm("server") :
                      /\ reply_confirm' = conf
                      /\ replyQ' = IF srvCur.reply_to = ResponseQueue /\ BrokerQueued(conf)
                                   THEN Append(replyQ, ReplyEnvelope(srvCur, payload.bytes))
                                   ELSE replyQ
                /\ srvSent' = Append(srvSent,
                       [to |-> srvCur.reply_to,
                        env |-> ReplyEnvelope(srvCur, payload.bytes),
                        req |-> srvCur])
    /\ UNCHANGED <<pc, input, id, slot, txLost, result, map, completions, reqQ,
                   reqSub, replySub, injected, faults, srvCur, invoked,
                   srvAcked, rtrPc, rtrResult, rtrLast>>
    /\ UNCHANGED <<reqUnacked, replyUnacked>>
    /\ UNCHANGED <<confirmSelect, confirm>>
    /\ UNCHANGED otherVars

\* the driver's future resolved; to_allocvec(&result_value)?; reply_to and
\* correlation_id are taken from the request; basic_publish: the reply is on
\* its way and handle_request is suspended on the publish
ServerHandlerDone ==
    /\ srvPc = "handler"
    /\ LET value == Handler(FromBytes(srvCur.data).val)
           payload == ToAllocvec(value)
       IN  IF ~payload.ok
           THEN ServerReturn("SerializationError") /\ UNCHANGED <<replyQ, srvSent, reply_confirm>>
           ELSE IF srvCur.reply_to = ReplyToAbsent
           THEN ServerReturn("DidNotRecieveReply") /\ UNCHANGED <<replyQ, srvSent, reply_confirm>>
           ELSE IF srvCur.corr = CorrAbsent
           THEN ServerReturn("CorrelationIdNotFound") /\ UNCHANGED <<replyQ, srvSent, reply_confirm>>
           ELSE /\ srvPc' = "publishing"
                /\ UNCHANGED srvResult
                /\ \E conf \in PublisherConfirm("server") :
                      /\ reply_confirm' = conf
                      /\ replyQ' = IF srvCur.reply_to = ResponseQueue /\ BrokerQueued(conf)
                                   THEN Append(replyQ, ReplyEnvelope(srvCur, payload.bytes))
                                   ELSE replyQ
                /\ srvSent' = Append(srvSent,
                       [to |-> srvCur.reply_to,
                        env |-> ReplyEnvelope(srvCur, payload.bytes),
                        req |-> srvCur])
    /\ UNCHANGED <<pc, input, id, slot, txLost, result, map, completions, reqQ,
                   reqSub, replySub, injected, faults, srvCur, invoked,
                   srvAcked, rtrPc, rtrResult, rtrLast>>
    /\ UNCHANGED <<reqUnacked, replyUnacked>>
    /\ UNCHANGED <<confirmSelect, confirm>>
    /\ UNCHANGED otherVars

\* the publish of the reply resumed with an Ack or a Nack:
\* assert_eq!(reply_confirm, Confirmation::NotRequested) panics inside run()
ServerAssertFail ==
    /\ srvPc = "publishing"
    /\ reply_confirm # "NotRequested"
    /\ srvPc' = "panicked"
    /\ UNCHANGED <<pc, input, id, slot, txLost, result, map, completions, reqQ,
                   replyQ, reqSub, replySub, injected, faults, srvCur,
                   srvResult, invoked, srvAcked, rtrPc, rtrResult, rtrLast>>
    /\ UNCHANGED <<srvSent, reqUnacked, replyUnacked>>
    /\ UNCHANGED <<confirmSelect, confirm, reply_confirm>>
    /\ UNCHANGED otherVars

\* the publish resumed with NotRequested, the assertion holds:
\* handle_request returns Ok(()) and the loop reads the next request
ServerPublished ==
    /\ srvPc = "publishing"
    /\ reply_confirm = "NotRequested"
    /\ srvPc' = "next"
    /\ UNCHANGED <<pc, input, id, slot, txLost, result, map, completions, reqQ,
                   replyQ, reqSub, replySub, injected, faults, srvCur,
                   srvResult, invoked, srvAcked, rtrPc, rtrResult, rtrLast>>
    /\ UNCHANGED <<srvSent, reqUnacked, replyUnacked>>
    /\ UNCHANGED <<confirmSelect, confirm, reply_confirm>>
    /\ UNCHANGED otherVars

\* basic_publish(..).await?.await? fails
ServerPublishFail ==
    /\ srvPc = "publishing"
    /\ faults < MaxFaults
    /\ faults' = faults + 1
    /\ ServerReturn("LapinError")
    /\ UNCHANGED <<pc, input, id, slot, txLost, result, map, completions, reqQ,
                   replyQ, reqSub, replySub, injected, srvCur, invoked,
                   srvAcked, rtrPc, rtrResult, rtrLast>>
    /\ UNCHANGED <<srvSent, reqUnacked, replyUnacked>>
    /\ UNCHANGED <<confirmSelect, confirm, reply_confirm>>
    /\ UNCHANGED otherVars

\* ------------------------------------------------------------ environment

\* the correlation ids a foreign publisher may put on a message
ForeignCorrs ==
    {CorrAbsent, CorrGarbage}
        \cup {[fmt |-> f, uuid |-> u] : f \in {"hyphenated", "simple"}, u \in Uuids}

\* somebody publishes to the reply queue: a late, duplicate or forged reply
EnvInjectReply(corr, bytes) ==
    /\ injected < MaxInject
    /\ injected' = injected + 1
    /\ replyQ' = Append(replyQ, [reply_to |-> ReplyToAbsent, corr |-> corr,
                                 data |-> bytes, mode |-> 2])
    /\ UNCHANGED <<pc, input, id, slot, txLost, result, map, completions, reqQ,
                   reqSub, replySub, faults, srvPc, srvCur, srvResult, invoked,
                   srvAcked, rtrPc, rtrResult, rtrLast>>
    /\ UNCHANGED <<srvSent, reqUnacked, replyUnacked>>
    /\ UNCHANGED <<confirmSelect, confirm, reply_confirm>>
    /\ UNCHANGED otherVars

\* somebody else publishes to the request queue
EnvInjectRequest(rt, corr, bytes) ==
    /\ injected < MaxInject
    /\ injected' = injected + 1
    /\ reqQ' = Append(reqQ, [reply_to |-> rt, corr |-> corr, data |-> bytes,
                             mode |-> 2])
    /\ UNCHANGED <<pc, input, id, slot, txLost, result, map, completions,
                   replyQ, reqSub, replySub, faults, srvPc, srvCur, srvResult,
                   invoked, srvAcked, rtrPc, rtrResult, rtrLast>>
    /\ UNCHANGED <<srvSent, reqUnacked, replyUnacked>>
    /\ UNCHANGED <<confirmSelect, confirm, reply_confirm>>
    /\ UNCHANGED otherVars

\* broker or channel shutdown ends the reply subscription
EnvCloseReplySub ==
    /\ replySub = "open"
    /\ replySub' = "closed"
    /\ UNCHANGED <<pc, input, id, slot, txLost, result, map, completions, reqQ,
                   replyQ, reqSub, injected, faults, srvPc, srvCur, srvResult,
                   invoked, srvAcked, rtrPc, rtrResult, rtrLast>>
    /\ UNCHANGED <<srvSent, reqUnacked, replyUnacked>>
    /\ UNCHANGED <<confirmSelect, confirm, reply_confirm>>
    /\ UNCHANGED otherVars

\* the broker puts a request that was delivered and never acknowledged
\* back on the request queue
EnvRequeueRequest ==
    /\ reqUnacked # << >>
    /\ reqQ' = Append(reqQ, Head(reqUnacked))
    /\ reqUnacked' = Tail(reqUnacked)
    /\ UNCHANGED <<pc, input, id, slot, txLost, result, map, completions,
                   replyQ, reqSub, replySub, injected, faults, srvPc, srvCur,
                   srvResult, invoked, srvAcked, srvSent, rtrPc, rtrResult,
                   rtrLast>>
    /\ UNCHANGED <<replyUnacked, confirmSelect, confirm, reply_confirm>>
    /\ UNCHANGED otherVars

\* broker or channel shutdown ends the request subscription
EnvCloseReqSub ==
    /\ reqSub = "open"
    /\ reqSub' = "closed"
    /\ UNCHANGED <<pc, input, id, slot, txLost, result, map, completions, reqQ,
                   replyQ, replySub, injected, faults, srvPc, srvCur,
                   srvResult, invoked, srvAcked, rtrPc, rtrResult, rtrLast>>
    /\ UNCHANGED <<srvSent, reqUnacked, replyUnacked>>
    /\ UNCHANGED <<confirmSelect, confirm, reply_confirm>>
    /\ UNCHANGED otherVars


\* ------------------------------------------- LapinConsumer::to_stream

\* (self.deserializer)(delivery.data): the route's deserializer
Deserializer(b) == FromBytes(b)

\* a publisher puts the next message on the queue
ConPublish(b) ==
    /\ conSent < NumMsgs
    /\ conSent' = conSent + 1
    /\ conData' = [conData EXCEPT ![conSent + 1] = b]
    /\ conQ' = Append(conQ, conSent + 1)
    /\ UNCHANGED <<conSub, conUnacked, conFaults, conPc, conHeld, conLast,
                   recvCount, ackCalls, ackOk, yieldedOk, yieldedDesErr>>
    /\ UNCHANGED conOthers

\* the broker puts a message that was delivered and never acknowledged back
\* on the queue
ConRequeue(m) ==
    /\ m \in conUnacked
    /\ m # conHeld
    /\ conUnacked' = conUnacked \ {m}
    /\ conQ' = Append(conQ, m)
    /\ UNCHANGED <<conSub, conSent, conData, conFaults, conPc, conHeld,
                   conLast, recvCount, ackCalls, ackOk, yieldedOk,
                   yieldedDesErr>>
    /\ UNCHANGED conOthers

\* broker or channel shutdown ends the subscription
ConCloseSub ==
    /\ conSub = "open"
    /\ conSub' = "closed"
    /\ UNCHANGED <<conQ, conUnacked, conSent, conData, conFaults, conPc,
                   conHeld, conLast, recvCount, ackCalls, ackOk, yieldedOk,
                   yieldedDesErr>>
    /\ UNCHANGED conOthers

\* self.consumer.next() yields Some(Ok(delivery)): the stream goes on to
\* delivery.ack(..).await
StreamRecv ==
    /\ conPc = "next"
    /\ conSub = "open"
    /\ conQ # << >>
    /\ conQ' = Tail(conQ)
    /\ conHeld' = Head(conQ)
    /\ conUnacked' = conUnacked \cup {Head(conQ)}
    /\ recvCount' = [recvCount EXCEPT ![Head(conQ)] = @ + 1]
    /\ conPc' = "ack"
    /\ UNCHANGED <<conSub, conSent, conData, conFaults, conLast, ackCalls,
                   ackOk, yieldedOk, yieldedDesErr>>
    /\ UNCHANGED conOthers

\* a stream that yields the transport error and then ends
StreamRecvError_Ends ==
    /\ conPc = "next"
    /\ conSub = "open"
    /\ conFaults < MaxFaults
    /\ conFaults' = conFaults + 1
    /\ conLast' = "ConsumerError"
    /\ conPc' = "ended"
    /\ UNCHANGED <<conQ, conSub, conUnacked, conSent, conData, conHeld,
                   recvCount, ackCalls, ackOk, yieldedOk, yieldedDesErr>>
    /\ UNCHANGED conOthers

\* self.consumer.next() yields Some(Err(err)): the stream yields
\* Some(Err(ConsumerError(err))) and loops
StreamRecvError ==
    /\ conPc = "next"
    /\ conSub = "open"
    /\ conFaults < MaxFaults
    /\ conFaults' = conFaults + 1
    /\ conLast' = "ConsumerError"
    /\ UNCHANGED <<conQ, conSub, conUnacked, conSent, conData, conPc, conHeld,
                   recvCount, ackCalls, ackOk, yieldedOk, yieldedDesErr>>
    /\ UNCHANGED conOthers

\* self.consumer.next() yields None: the stream yields None and loops
StreamRecvNone ==
    /\ conPc = "next"
    /\ conSub = "closed"
    /\ conLast' = "None"
    /\ UNCHANGED <<conQ, conSub, conUnacked, conSent, conData, conFaults,
                   conPc, conHeld, recvCount, ackCalls, ackOk, yieldedOk,
                   yieldedDesErr>>
    /\ UNCHANGED conOthers

\* a stream that deserializes first and acknowledges only what it could
\* decode
StreamAck_DecodeFirst ==
    /\ conPc = "ack"
    /\ ackCalls' = [ackCalls EXCEPT ![conHeld] =
                       IF Deserializer(conData[conHeld]).ok THEN @ + 1 ELSE @]
    /\ ackOk' = [ackOk EXCEPT ![conHeld] =
                       IF Deserializer(conData[conHeld]).ok THEN @ + 1 ELSE @]
    /\ conUnacked' = IF Deserializer(conData[conHeld]).ok
                     THEN conUnacked \ {conHeld} ELSE conUnacked
    /\ IF Deserializer(conData[conHeld]).ok
       THEN /\ yieldedOk' = [yieldedOk EXCEPT ![conHeld] = @ + 1]
            /\ conLast' = "Ok"
            /\ UNCHANGED yieldedDesErr
       ELSE /\ yieldedDesErr' = [yieldedDesErr EXCEPT ![conHeld] = @ + 1]
            /\ conLast' = "DeserializationError"
            /\ UNCHANGED yieldedOk
    /\ conHeld' = 0
    /\ conPc' = "next"
    /\ UNCHANGED <<conQ, conSub, conSent, conData, conFaults, recvCount>>
    /\ UNCHANGED conOthers

\* a stream that yields the decoded value without acknowledging the message
StreamAck_NoAck ==
    /\ conPc = "ack"
    /\ IF Deserializer(conData[conHeld]).ok
       THEN /\ yieldedOk' = [yieldedOk EXCEPT ![conHeld] = @ + 1]
            /\ conLast' = "Ok"
            /\ UNCHANGED yieldedDesErr
       ELSE /\ yieldedDesErr' = [yieldedDesErr EXCEPT ![conHeld] = @ + 1]
            /\ conLast' = "DeserializationError"
            /\ UNCHANGED yieldedOk
    /\ conHeld' = 0
    /\ conPc' = "next"
    /\ UNCHANGED <<conQ, conSub, conUnacked, conSent, conData, conFaults,
                   recvCount, ackCalls, ackOk>>
    /\ UNCHANGED conOthers

\* delivery.ack(..).await is Ok(()): the broker forgets the message; the
\* stream deserializes delivery.data and yields Some(Ok(value)) or
\* Some(Err(DeserializationError(err))), then loops
StreamAck ==
    /\ conPc = "ack"
    /\ ackCalls' = [ackCalls EXCEPT ![conHeld] = @ + 1]
    /\ ackOk' = [ackOk EXCEPT ![conHeld] = @ + 1]
    /\ conUnacked' = conUnacked \ {conHeld}
    /\ IF Deserializer(conData[conHeld]).ok
       THEN /\ yieldedOk' = [yieldedOk EXCEPT ![conHeld] = @ + 1]
            /\ conLast' = "Ok"
            /\ UNCHANGED yieldedDesErr
       ELSE /\ yieldedDesErr' = [yieldedDesErr EXCEPT ![conHeld] = @ + 1]
            /\ conLast' = "DeserializationError"
            /\ UNCHANGED yieldedOk
    /\ conHeld' = 0
    /\ conPc' = "next"
    /\ UNCHANGED <<conQ, conSub, conSent, conData, conFaults, recvCount>>
    /\ UNCHANGED conOthers

\* delivery.ack(..).await is Err(err): the message stays unacknowledged; the
\* stream yields Some(Err(ConsumerError(err))) and loops
StreamAckFail ==
    /\ conPc = "ack"
    /\ conFaults < MaxFaults
    /\ conFaults' = conFaults + 1
    /\ ackCalls' = [ackCalls EXCEPT ![conHeld] = @ + 1]
    /\ conLast' = "ConsumerError"
    /\ conHeld' = 0
    /\ conPc' = "next"
    /\ UNCHANGED <<conQ, conSub, conUnacked, conSent, conData, recvCount,
                   ackOk, yieldedOk, yieldedDesErr>>
    /\ UNCHANGED conOthers

\* ------------------------------------------------ LapinProducer::publish

\* (self.serializer)(value): a total function from the value to its bytes
Serializer(v) == [enc |-> "postcard", val |-> v]

\* lapin's Confirmation: what the PublisherConfirm future resolves to.  Ack
\* and Nack are the broker's answers on a channel in confirm mode;
\* NotRequested is what a channel that is not in confirm mode resolves to.
Confirmations == {"Ack", "Nack", "NotRequested"}

\* the message publish() sends: the serialized value with delivery mode 2
ProducerMessage(p) == [msg |-> p, data |-> Serializer(<<"in", p>>), mode |-> 2]

\* the serializer ran and basic_publish was called: publish() is suspended
\* until the frame is written and the confirmation resolves
ProdPublish(p) ==
    /\ prodPc[p] = "idle"
    /\ prodPc' = [prodPc EXCEPT ![p] = "sent"]
    /\ UNCHANGED <<prodConf, prodResult, prodQ, prodFaults>>
    /\ UNCHANGED prodOthers

\* the broker answers the publish: an Ack for a message it has queued, a
\* Nack for one it has not; without confirm mode nothing tells whether the
\* message was queued
BrokerConfirm(p, conf, queued) ==
    /\ prodPc[p] = "sent"
    /\ prodConf[p] = "none"
    /\ conf = "Ack" => queued
    /\ conf = "Nack" => ~queued
    /\ prodConf' = [prodConf EXCEPT ![p] = conf]
    /\ prodQ' = IF queued THEN Append(prodQ, ProducerMessage(p)) ELSE prodQ
    /\ UNCHANGED <<prodPc, prodResult, prodFaults>>
    /\ UNCHANGED prodOthers

\* basic_publish(..).await?.await? is Ok(confirmation): the confirmation is
\* bound to _confirm and publish() returns Ok(())
ProdReturn(p) ==
    /\ prodPc[p] = "sent"
    /\ prodConf[p] # "none"
    /\ prodPc' = [prodPc EXCEPT ![p] = "returned"]
    /\ prodResult' = [prodResult EXCEPT ![p] = "Ok"]
    /\ UNCHANGED <<prodConf, prodQ, prodFaults>>
    /\ UNCHANGED prodOthers

\* one of the two `.await?` is Err(e): publish() returns the transport error
ProdFail(p) ==
    /\ prodPc[p] = "sent"
    /\ prodConf[p] = "none"
    /\ prodFaults < MaxFaults
    /\ prodFaults' = prodFaults + 1
    /\ prodPc' = [prodPc EXCEPT ![p] = "returned"]
    /\ prodResult' = [prodResult EXCEPT ![p] = "LapinError"]
    /\ UNCHANGED <<prodConf, prodQ>>
    /\ UNCHANGED prodOthers

\* ------------------------------- the generated consumer facade: run()

\* serde_json::to_vec of a value of the route's data type
JsonToVec(v) == [enc |-> "json", val |-> v]

\* the route's deserializer (serde_json::from_slice): the decoded value, or
\* an error on bytes that are not JSON of the route's data type
RouteDeserializer(b) ==
    IF b.enc = "json" THEN [ok |-> TRUE, val |-> b.val]
    ELSE [ok |-> FALSE, val |-> NoValue]

\* the payload somebody publishes to route r as its k-th message: JSON of
\* a value of the route's data type, or garbage
RouteBytes(r, k, wellFormed) ==
    IF wellFormed THEN JsonToVec(<<r, k>>) ELSE GarbageBytes

\* the routes that have a message run() has not taken off their queue, or
\* has taken and not dispatched
MuxUndelivered ==
    {r \in Routes : muxSub[r] = "open" /\ (muxQ[r] # << >> \/ muxStream[r] = "ack")}

\* a publisher puts the next message on the queue of route r
MuxPublish(r, wellFormed) ==
    /\ muxSent[r] < MaxRouteMsgs
    /\ muxSent' = [muxSent EXCEPT ![r] = @ + 1]
    /\ muxQ' = [muxQ EXCEPT ![r] =
                   Append(@, RouteBytes(r, muxSent[r] + 1, wellFormed))]
    /\ UNCHANGED <<muxSub, muxFaults, muxPc, muxStream, muxHeld, muxResult,
                   muxLast, muxDispatched, muxLeft>>
    /\ UNCHANGED muxOthers

\* broker or channel shutdown ends the subscription of route r
MuxCloseSub(r) ==
    /\ muxSub[r] = "open"
    /\ muxSub' = [muxSub EXCEPT ![r] = "closed"]
    /\ UNCHANGED <<muxQ, muxSent, muxFaults, muxPc, muxStream, muxHeld,
                   muxResult, muxLast, muxDispatched, muxLeft>>
    /\ UNCHANGED muxOthers

\* a `return` or a `?` in the select branch, or the Ok(()) after the select
MuxReturn(res, what) ==
    /\ muxPc' = "returned"
    /\ muxResult' = res
    /\ muxLast' = what
    /\ muxLeft' = MuxUndelivered

\* select! polls r.next(): the stream of route r reads a delivery and
\* suspends on its ack
MuxRecv(r) ==
    /\ muxPc = "select"
    /\ muxStream[r] = "next"
    /\ muxSub[r] = "open"
    /\ muxQ[r] # << >>
    /\ muxHeld' = [muxHeld EXCEPT ![r] = Head(muxQ[r])]
    /\ muxQ' = [muxQ EXCEPT ![r] = Tail(@)]
    /\ muxStream' = [muxStream EXCEPT ![r] = "ack"]
    /\ UNCHANGED <<muxSub, muxSent, muxFaults, muxPc, muxResult, muxLast,
                   muxDispatched, muxLeft>>
    /\ UNCHANGED muxOthers

\* the stream of route r yields Some(Err(ConsumerError)) for a failed
\* receive: `result?` returns it from run()
MuxRecvError(r) ==
    /\ muxPc = "select"
    /\ muxStream[r] = "next"
    /\ muxSub[r] = "open"
    /\ muxFaults < MaxFaults
    /\ muxFaults' = muxFaults + 1
    /\ MuxReturn("ConsumerError", "error")
    /\ UNCHANGED <<muxQ, muxSub, muxSent, muxStream, muxHeld, muxDispatched>>
    /\ UNCHANGED muxOthers

\* a run() that takes a closed route out of the race and goes on with the
\* others
MuxRecvNone_DropRoute(r) ==
    /\ muxPc = "select"
    /\ muxStream[r] = "next"
    /\ muxSub[r] = "closed"
    /\ muxStream' = [muxStream EXCEPT ![r] = "ended"]
    /\ muxLast' = "closed"
    /\ UNCHANGED <<muxQ, muxSub, muxSent, muxFaults, muxPc, muxHeld,
                   muxResult, muxDispatched, muxLeft>>
    /\ UNCHANGED muxOthers

\* the subscription of route r has closed: its stream yields None, the
\* branch takes the `else` of the let and run() returns Ok(())
MuxRecvNone(r) ==
    /\ muxPc = "select"
    /\ muxStream[r] = "next"
    /\ muxSub[r] = "closed"
    /\ MuxReturn("Ok", "closed")
    /\ UNCHANGED <<muxQ, muxSub, muxSent, muxFaults, muxStream, muxHeld,
                   muxDispatched>>
    /\ UNCHANGED muxOthers

\* the ack of route r's delivery succeeded and the stream yields the decoded
\* value: the branch of r runs and calls TConsumer::r(self.consumer, data),
\* which is awaited; on a payload that does not decode the stream yields
\* Some(Err(DeserializationError)) and `result?` returns it
MuxAck(r) ==
    /\ muxPc = "select"
    /\ muxStream[r] = "ack"
    /\ muxStream' = [muxStream EXCEPT ![r] = "next"]
    /\ IF RouteDeserializer(muxHeld[r]).ok
       THEN /\ muxPc' = "dispatch"
            /\ muxDispatched' = Append(muxDispatched,
                   [method |-> r, data |-> RouteDeserializer(muxHeld[r]).val])
            /\ UNCHANGED <<muxResult, muxLast, muxLeft>>
       ELSE /\ MuxReturn("DeserializationError", "error")
            /\ UNCHANGED muxDispatched
    /\ UNCHANGED <<muxQ, muxSub, muxSent, muxFaults, muxHeld>>
    /\ UNCHANGED muxOthers

\* the ack of route r's delivery failed: the stream yields
\* Some(Err(ConsumerError)) and `result?` returns it
MuxAckFail(r) ==
    /\ muxPc = "select"
    /\ muxStream[r] = "ack"
    /\ muxFaults < MaxFaults
    /\ muxFaults' = muxFaults + 1
    /\ muxStream' = [muxStream EXCEPT ![r] = "next"]
    /\ MuxReturn("ConsumerError", "error")
    /\ UNCHANGED <<muxQ, muxSub, muxSent, muxHeld, muxDispatched>>
    /\ UNCHANGED muxOthers

\* the method of the dispatch target has returned: the select! is over and
\* run() returns the Ok(()) that follows it
MuxDispatchDone ==
    /\ muxPc = "dispatch"
    /\ MuxReturn("Ok", "dispatched")
    /\ UNCHANGED <<muxQ, muxSub, muxSent, muxFaults, muxStream, muxHeld,
                   muxDispatched>>
    /\ UNCHANGED muxOthers

\* ---------------------------------------------------------- specifications

\* the payloads a foreign publisher may send: an encoded value, or garbage
ForeignBytes == {ToAllocvec(<<"in", 0>>).bytes, GarbageBytes}

\* the payloads of a foreign request: those, or an encoded input the driver
\* rejects
RequestBytes == ForeignBytes \cup {ToAllocvec(<<"bad", 0>>).bytes}

\* the client and the router on a transport that may fail, close and carry
\* foreign replies, served by a server that answers every request it reads
Next ==
    \/ \E c \in Callers : \E i \in Inputs(c) : SendSerializeFail(c, i)
    \/ \E c \in Callers : \E i \in Inputs(c), u \in Uuids : SendPublish(c, i, u)
    \/ \E c \in Callers : \E i \in Inputs(c), u \in Uuids : SendPublishFail(c, i, u)
    \/ \E c \in Callers : SendRegister(c)
    \/ \E c \in Callers : SendResolve(c)
    \/ \E c \in Callers : SendRecvError(c)
    \/ \E c \in Callers : SendAbandon(c)
    \/ RouterDeliver
    \/ RouterRecvError
    \/ RouterClosed
    \/ ServerNext
    \/ ServerAck
    \/ ServerHandlerDone
    \/ ServerPublished
    \/ \E corr \in ForeignCorrs, b \in ForeignBytes : EnvInjectReply(corr, b)
    \/ EnvCloseReplySub

Spec == Init /\ [][Next]_vars

\* the server on a transport that may fail, close and carry foreign
\* requests, with clients that send and a router that routes
NextServer ==
    \/ \E c \in Callers : \E i \in Inputs(c), u \in Uuids : SendPublish(c, i, u)
    \/ \E c \in Callers : SendRegister(c)
    \/ \E c \in Callers : SendResolve(c)
    \/ RouterDeliver
    \/ ServerNext
    \/ ServerRecvError
    \/ ServerClosed
    \/ ServerAck
    \/ ServerAckFail
    \/ ServerHandlerDone
    \/ ServerPublished
    \/ ServerPublishFail
    \/ \E rt \in {ResponseQueue, OtherQueue, ReplyToAbsent}, corr \in ForeignCorrs,
          b \in RequestBytes : EnvInjectRequest(rt, corr, b)
    \/ EnvRequeueRequest
    \/ EnvCloseReqSub

SpecServer == Init /\ [][NextServer]_vars

\* the owner of a channel puts it in confirm mode (confirm_select on the
\* Channel handed to RPCHandleController::new or RPCHandler::new, or on a
\* clone of it); AMQP has no way back
EnvConfirmSelect(side) ==
    /\ side \notin confirmSelect
    /\ confirmSelect' = confirmSelect \cup {side}
    /\ UNCHANGED <<pc, input, id, slot, txLost, result, map, completions, reqQ,
                   replyQ, reqSub, replySub, injected, faults, srvPc, srvCur,
                   srvResult, invoked, srvAcked, rtrPc, rtrResult, rtrLast>>
    /\ UNCHANGED <<srvSent, reqUnacked, replyUnacked>>
    /\ UNCHANGED <<confirm, reply_confirm>>
    /\ UNCHANGED otherVars

\* the same layer on an open transport that delivers every message and
\* carries only the program's own messages
NextReliable ==
    \/ \E c \in Callers : \E i \in Inputs(c), u \in Uuids : SendPublish(c, i, u)
    \/ \E c \in Callers : SendRegister(c)
    \/ \E c \in Callers : SendResolve(c)
    \/ RouterDeliver
    \/ ServerNext
    \/ ServerAck
    \/ ServerHandlerDone
    \/ ServerPublished

SpecReliable == Init /\ [][NextReliable]_vars

\* the same layer on channels whose owner may have put them in confirm mode
NextConfirm ==
    \/ \E c \in Callers : \E i \in Inputs(c), u \in Uuids : SendPublish(c, i, u)
    \/ \E c \in Callers : SendRegister(c)
    \/ \E c \in Callers : SendAssertFail(c)
    \/ \E c \in Callers : SendResolve(c)
    \/ RouterDeliver
    \/ ServerNext
    \/ ServerAck
    \/ ServerHandlerDone
    \/ ServerPublished
    \/ ServerAssertFail
    \/ \E side \in {"client", "server"} : EnvConfirmSelect(side)

SpecConfirm == Init /\ [][NextConfirm]_vars

\* the typed consumer stream on a queue whose broker may fail a call, close
\* the subscription and redeliver what was never acknowledged
NextConsumer ==
    \/ \E b \in ForeignBytes : ConPublish(b)
    \/ \E m \in Msgs : ConRequeue(m)
    \/ ConCloseSub
    \/ StreamRecv
    \/ StreamRecvError
    \/ StreamRecvNone
    \/ StreamAck
    \/ StreamAckFail

SpecConsumer == Init /\ [][NextConsumer]_vars

\* the typed producer on a channel whose broker confirms, refuses or does
\* not confirm what is published, and may fail a call
NextProducer ==
    \/ \E p \in Publishes : ProdPublish(p)
    \/ \E p \in Publishes : \E conf \in Confirmations, queued \in BOOLEAN :
          BrokerConfirm(p, conf, queued)
    \/ \E p \in Publishes : ProdReturn(p)
    \/ \E p \in Publishes : ProdFail(p)

SpecProducer == Init /\ [][NextProducer]_vars

\* one run() of the generated consumer facade over routes whose broker may
\* fail a call and close a subscription
NextMux ==
    \/ \E r \in Routes, wellFormed \in BOOLEAN : MuxPublish(r, wellFormed)
    \/ \E r \in Routes : MuxCloseSub(r)
    \/ \E r \in Routes : MuxRecv(r)
    \/ \E r \in Routes : MuxRecvError(r)
    \/ \E r \in Routes : MuxRecvNone(r)
    \/ \E r \in Routes : MuxAck(r)
    \/ \E r \in Routes : MuxAckFail(r)
    \/ MuxDispatchDone

SpecMux == Init /\ [][NextMux]_vars

\* ------------------------------------------------------------------ claims

\* nothing is in flight and no call is about to move: only a new send() can
\* still happen
Quiescent ==
    /\ reqQ = << >>
    /\ replyQ = << >>
    /\ srvPc = "next"
    /\ \A c \in Callers :
          /\ pc[c] # "published"
          /\ pc[c] = "awaiting" => slot[c] = NoDelivery

\* the calls issued so far generated pairwise distinct correlation ids
DistinctIds ==
    \A c, d \in Callers : (c # d /\ id[c] # 0) => id[c] # id[d]

\* the uuid a delivery is tagged with, 0 when it carries none
TagOf(d) == UuidFromStr(d.corr).uuid

\* C1: with distinct correlation ids and a transport that delivers every
\* message, once everything in flight has been processed every issued send()
\* has resolved with the reply tagged with its own id, whatever the
\* interleaving (a reply routed before the caller registered included).
C1_CorrelationCorrectness ==
    (Quiescent /\ DistinctIds) =>
        \A c \in Callers :
            pc[c] # "idle" => (pc[c] = "done" /\ TagOf(slot[c]) = id[c])

\* C2: with a single client, once everything in flight has been processed
\* send(I) has resolved to the driver's return value for I, the driver was
\* invoked with exactly I, and neither run() has returned.
C2_EndToEnd ==
    \A c \in Callers :
        (Quiescent /\ pc[c] # "idle" /\ \A d \in Callers \ {c} : pc[d] = "idle") =>
            /\ result[c] = Returned("Ok", Handler(input[c]))
            /\ invoked = <<input[c]>>
            /\ srvPc # "returned"
            /\ rtrPc # "returned"

\* C3: a call's receiver never holds a reply tagged with another id than the
\* one the call generated.
C3_OwnReplyOnly ==
    \A c \in Callers :
        slot[c] # NoDelivery =>
            (UuidFromStr(slot[c].corr).ok /\ TagOf(slot[c]) = id[c])

\* two calls with different ids have both been completed
C3_Witness ==
    \E c, d \in Callers :
        /\ id[c] # id[d]
        /\ slot[c] # NoDelivery
        /\ slot[d] # NoDelivery

\* the router reads a reply whose well-formed id has no entry in the table
OrphanStep ==
    /\ rtrPc = "running"
    /\ replySub = "open"
    /\ replyQ # << >>
    /\ replyQ' = Tail(replyQ)
    /\ UuidFromStr(Head(replyQ).corr).ok
    /\ map[TagOf(Head(replyQ))] = 0

\* C4: a reply whose id has no entry is discarded: the table, every call and
\* every receiver stay as they are, and the router keeps running.
C4_OrphanTolerance ==
    [][OrphanStep =>
          /\ map' = map
          /\ pc' = pc
          /\ slot' = slot
          /\ txLost' = txLost
          /\ result' = result
          /\ completions' = completions
          /\ rtrPc' = "running"]_vars

\* an orphan was just discarded while another call's entry is pending
C4_Witness ==
    /\ rtrLast.what = "orphan"
    /\ rtrPc = "running"
    /\ \E c \in Callers : pc[c] = "awaiting" /\ map[id[c]] = c /\ slot[c] = NoDelivery

\* C5: a reply with a missing or malformed correlation id does not end the
\* router loop: run() never returns a correlation error.
C5_MalformedTolerance ==
    rtrPc = "returned" =>
        rtrResult \notin {"CorrelationIdNotFound", "CorrelationIdNotUuid"}

\* C6: a call's sender is used at most once, and after it was used the table
\* holds no entry under the call's id (ids being distinct), so a later reply
\* for that id is an orphan.
C6_AtMostOneCompletion ==
    \A c \in Callers :
        /\ completions[c] <= 1
        /\ (completions[c] = 1 /\ \A d \in Callers \ {c} : id[d] # id[c])
              => map[id[c]] = 0

\* a call was completed and a later reply with the same id was dropped
C6_Witness ==
    \E c \in Callers :
        /\ completions[c] = 1
        /\ slot[c] # NoDelivery
        /\ rtrLast = [what |-> "orphan", uuid |-> id[c]]

\* C8: whenever run() of the router has returned, the reply subscription has
\* closed.
C8_OnlyClosureEndsLoop ==
    rtrPc = "returned" => replySub = "closed"

\* the messages waiting on the consumer's queue
Queued == {conQ[k] : k \in 1..Len(conQ)}

\* what holds of a message once the stream yielded a DeserializationError
\* for it
BadPayloadSettled(m) ==
    /\ ackOk[m] = 1
    /\ yieldedOk[m] = 0
    /\ m \notin conUnacked
    /\ m \notin Queued
    /\ m # conHeld

\* C9: a message whose payload failed to deserialize was acknowledged before,
\* produced exactly one DeserializationError element and no value and can
\* never be delivered again; the step that yields the error leaves the stream
\* at the top of its loop, reading the next message.
C9_AtMostOnceOnBadPayload ==
    /\ [](\A m \in Msgs :
            /\ yieldedDesErr[m] <= 1
            /\ yieldedDesErr[m] = 1 => BadPayloadSettled(m))
    /\ [][yieldedDesErr' # yieldedDesErr => conPc' = "next"]_vars

\* after the error for a bad message the stream yielded a later message
C9_Witness ==
    \E m, n \in Msgs :
        /\ m < n
        /\ yieldedDesErr[m] = 1
        /\ yieldedOk[n] = 1
        /\ conLast = "Ok"

\* C10: for every message, the stream made one ack call per delivery it
\* finished reading, the broker accepted at most one ack, and nothing was
\* deserialized and yielded for the message without an accepted ack.
C10_AckOncePerMessage ==
    \A m \in Msgs :
        /\ ackCalls[m] = recvCount[m] - (IF conHeld = m THEN 1 ELSE 0)
        /\ ackOk[m] <= 1
        /\ yieldedOk[m] + yieldedDesErr[m] <= ackOk[m]
        /\ conHeld = m => m \in conUnacked

\* a message was delivered twice (its first ack failed), acknowledged once
\* and yielded as a value
C10_Witness ==
    \E m \in Msgs :
        /\ recvCount[m] = 2
        /\ ackCalls[m] = 2
        /\ ackOk[m] = 1
        /\ yieldedOk[m] = 1

\* C11: a receive failure of the transport makes the stream yield one
\* ConsumerError element and nothing else: the stream is back at
\* consumer.next(), the subscription, the queue and the acknowledgement and
\* yield histories are as before, so messages delivered afterwards are still
\* acknowledged and yielded (C11_Witness).  The stream never ends at an
\* error; the element None, after which nothing is delivered, is yielded
\* only when the subscription has closed.
C11_ReceiveErrorNotTerminal ==
    /\ [][(conPc = "next" /\ conFaults' = conFaults + 1) =>
            /\ conLast' = "ConsumerError"
            /\ conPc' = "next"
            /\ UNCHANGED <<conQ, conSub, conUnacked, conHeld, recvCount,
                           ackCalls, ackOk, yieldedOk, yieldedDesErr>>]_vars
    /\ [](conPc \in {"next", "ack"})
    /\ [](conLast = "None" => conSub = "closed")

\* the only failure was a receive failure (no ack call failed) and the one
\* message yielded so far was yielded after it
C11_Witness ==
    /\ conFaults = 1
    /\ \A m \in Msgs : ackCalls[m] = ackOk[m]
    /\ conLast = "Ok"
    /\ \E m \in Msgs :
          /\ yieldedOk[m] = 1 /\ ackOk[m] = 1
          /\ \A n \in Msgs \ {m} : recvCount[n] = 0

\* C12: publish() returns Ok only for a message the transport has
\* positively confirmed (an Ack, not a Nack and not NotRequested), so a
\* publish that returned Ok means the message is queued.
C12_OkOnlyAfterConfirm ==
    \A p \in Publishes :
        prodResult[p] = "Ok" =>
            /\ prodConf[p] = "Ack"
            /\ \E k \in 1..Len(prodQ) : prodQ[k] = ProducerMessage(p)

\* C13: one run() of the consumer facade dispatches every message of every
\* route, each to the method of its own route: after a dispatch it races
\* the routes again, so a run() that returned after a dispatch (no stream
\* had closed or failed) left no published message of a route undispatched.
C13_FanIn ==
    /\ \A k \in 1..Len(muxDispatched) :
          muxDispatched[k].method = muxDispatched[k].data[1]
    /\ (muxPc = "returned" /\ muxLast = "dispatched") => muxLeft = {}

\* C14: every reply the server publishes goes to the reply_to address of the
\* request it answers, carries that request's correlation id unchanged and
\* has the durable flag (delivery mode 2) set.  The k-th reply answers the
\* k-th request the handler was invoked for: its payload is the encoded
\* result of that invocation, and address and id are those of the request
\* that carried the invocation's input, never those of another request.
C14_ReplyAddressing ==
    /\ Len(srvSent) <= Len(invoked)
    /\ \A k \in 1..Len(srvSent) :
          /\ FromBytes(srvSent[k].req.data) = [ok |-> TRUE, val |-> invoked[k]]
          /\ srvSent[k].env.data = ToAllocvec(Handler(invoked[k])).bytes
          /\ srvSent[k].to = srvSent[k].req.reply_to
          /\ srvSent[k].to # ReplyToAbsent
          /\ srvSent[k].env.corr = srvSent[k].req.corr
          /\ srvSent[k].env.corr # CorrAbsent
          /\ srvSent[k].env.mode = 2

\* two requests with different correlation ids and different reply
\* addresses have been answered
C14_Witness ==
    /\ Len(srvSent) = 2
    /\ srvSent[1].req.corr # srvSent[2].req.corr
    /\ srvSent[1].req.reply_to # srvSent[2].req.reply_to

\* C15: the server is strictly sequential.  A request is taken off the
\* request queue only while the loop is at listener.next() and every
\* request read before has been acknowledged, handled and answered with
\* the publish of its reply completed; a handler invocation starts only
\* when every earlier invocation has had its reply published, so no two
\* invocations are ever in progress.
C15_StrictlySequential ==
    /\ [][Len(reqQ') < Len(reqQ) =>
            /\ srvPc = "next"
            /\ srvAcked = Len(invoked)
            /\ Len(srvSent) = Len(invoked)]_vars
    /\ [][invoked' # invoked =>
            /\ srvPc = "ack"
            /\ Len(invoked') = Len(invoked) + 1
            /\ Len(srvSent) = Len(invoked)]_vars

\* a second request is being handled after the first was answered
C15_Witness ==
    /\ Len(invoked) = 2
    /\ Len(srvSent) = 1
    /\ srvPc = "handler"

\* the requests published to the request queue so far: one per send() that
\* got past its publish, and the foreign ones
ReqPublished == Cardinality({c \in Callers : pc[c] # "idle"}) + injected

\* run() returned because handle_request stopped after the ack and before
\* the publish of the reply
StoppedAfterAck ==
    /\ srvPc = "returned"
    /\ srvResult \in {"SerializationError", "DidNotRecieveReply",
                      "CorrelationIdNotFound"}

\* C16: the server acknowledges a request before it invokes the handler for
\* it, and invokes the handler at most once per delivered request: an
\* invocation starts in the step in which the broker accepted the ack of
\* the request in hand, and an acknowledged request is gone from the broker
\* (every published request is either still queued, unacknowledged, in hand
\* before its ack, or acknowledged once).  A request whose processing stops
\* between the ack and the publish of the reply is not redelivered and not
\* answered: it is counted as acknowledged, it has no reply, and nothing
\* changes that afterwards.
C16_AckBeforeHandle ==
    /\ [](Len(invoked) <= srvAcked)
    /\ [](Len(srvSent) <= Len(invoked))
    /\ [](ReqPublished = Len(reqQ) + Len(reqUnacked) + srvAcked
                           + (IF srvPc = "ack" THEN 1 ELSE 0))
    /\ [][invoked' # invoked =>
            /\ srvAcked' = srvAcked + 1
            /\ invoked' = Append(invoked, FromBytes(srvCur.data).val)]_vars
    /\ [](StoppedAfterAck => Len(srvSent) < srvAcked)
    /\ [][StoppedAfterAck =>
            /\ StoppedAfterAck'
            /\ UNCHANGED <<srvAcked, srvSent, invoked, srvCur, reqUnacked>>
            /\ Len(reqQ') >= Len(reqQ)]_vars

\* the request in hand had no reply_to: acknowledged, handled, run()
\* returned without a reply, and the broker holds no copy of it
C16_Witness ==
    /\ StoppedAfterAck
    /\ srvResult = "DidNotRecieveReply"
    /\ srvAcked = 1
    /\ Len(invoked) = 1
    /\ srvSent = << >>
    /\ reqQ = << >>
    /\ reqUnacked = << >>

\* the steps of one send(): Created (idle), Published, AwaitingReply
\* (awaiting), Completed (done), Failed; a caller may drop the future while
\* it awaits the reply
SendTransitions ==
    {<<"idle", "published">>, <<"idle", "failed">>,
     <<"published", "awaiting">>,
     <<"awaiting", "done">>, <<"awaiting", "failed">>,
     <<"awaiting", "dropped">>}

\* C17: a send() goes through Created, Published, AwaitingReply and then
\* Completed or Failed, in that order.  Its slot is in the table only once
\* the publish has completed, the call starts to wait for the reply in the
\* step that registers the slot (the request being already published), and
\* Completed and Failed are terminal: the call and its result never change
\* again.
C17_SendStateMachine ==
    /\ [][\A c \in Callers :
            pc'[c] # pc[c] => <<pc[c], pc'[c]>> \in SendTransitions]_vars
    /\ [](\A c \in Callers : \A u \in Uuids :
            map[u] = c => pc[c] \in {"awaiting", "done", "failed", "dropped"})
    /\ [][\A c \in Callers :
            (pc'[c] = "awaiting" /\ pc[c] # "awaiting") =>
                /\ pc[c] = "published"
                /\ id[c] # 0
                /\ map[id[c]] # c
                /\ map'[id[c]] = c
                /\ reqQ' = reqQ]_vars
    /\ [][\A c \in Callers :
            pc[c] \in {"done", "failed"} =>
                pc'[c] = pc[c] /\ result'[c] = result[c]]_vars
    /\ [](\A c \in Callers :
            /\ pc[c] = "done" <=> result[c].kind = "Ok"
            /\ pc[c] = "failed" <=> result[c].kind \notin {"none", "Ok"})

\* one call completed and another failed while it was waiting for its reply
C17_Witness ==
    \E c, d \in Callers :
        /\ pc[c] = "done"
        /\ pc[d] = "failed"
        /\ id[d] # 0
        /\ result[d].kind \in {"RecvError", "SerializationError"}

\* C18 as stated: the entry of a call that was abandoned after it
\* registered remains in the table in every later state, whatever messages
\* arrive: once the table has an entry under the id of an abandoned call,
\* it has one under that id ever after.
C18_LeakedForever ==
    [][\A c \in Callers :
         (pc[c] = "dropped" /\ map[id[c]] # 0) => map'[id[c]] # 0]_vars

\* C18 as amended: abandoning a send() does not remove its entry, and the
\* entry of an abandoned call leaves the table only when the router reads a
\* message that carries the call's id, or when another call that drew the
\* same id registers its own slot under it; in every other step it stays.
C18_LeakedUntilRouted ==
    [][\A c \in Callers :
         (pc'[c] = "dropped" /\ map[id[c]] = c /\ map'[id[c]] # c) =>
             \/ /\ replyQ # << >>
                /\ replyQ' = Tail(replyQ)
                /\ TagOf(Head(replyQ)) = id[c]
                /\ map'[id[c]] = 0
             \/ \E d \in Callers \ {c} :
                   /\ pc[d] = "published" /\ pc'[d] = "awaiting"
                   /\ id[d] = id[c]
                   /\ map'[id[c]] = d]_vars

\* an abandoned call's entry is still in the table after the router has
\* routed a message with another id and nothing is left in flight
C18_Witness ==
    \E c \in Callers :
        /\ pc[c] = "dropped"
        /\ map[id[c]] = c
        /\ rtrLast.what \in {"matched", "orphan"}
        /\ rtrLast.uuid # id[c]
        /\ replyQ = << >>
        /\ reqQ = << >>

\* C19: a send() that fails before it waits leaves the shared state as it
\* was.  When the input does not serialize nothing is published and no
\* entry is made; when the publish fails send() returns the transport error
\* and no entry is made for the generated id, then or later.
C19_EarlyFailureLeavesNoEntry ==
    /\ [][\A c \in Callers :
            (pc[c] = "idle" /\ pc'[c] = "failed") =>
                /\ map' = map
                /\ UNCHANGED <<slot, txLost, completions, replyQ>>
                /\ \/ /\ ~ToAllocvec(input'[c]).ok
                      /\ result'[c].kind = "SerializationError"
                      /\ reqQ' = reqQ
                      /\ id'[c] = 0
                   \/ /\ ToAllocvec(input'[c]).ok
                      /\ result'[c].kind = "LapinError"]_vars
    /\ [](\A c \in Callers :
            (pc[c] = "failed" /\ (id[c] = 0 \/ result[c].kind = "LapinError")) =>
                \A u \in Uuids : map[u] # c)

\* one call failed to serialize and another failed to publish, under an id
\* that a third party then may or may not use
C19_Witness ==
    \E c, d \in Callers :
        /\ pc[c] = "failed" /\ result[c].kind = "SerializationError" /\ id[c] = 0
        /\ pc[d] = "failed" /\ result[d].kind = "LapinError" /\ id[d] # 0

\* C20: when the payload of a request does not deserialize, the server
\* returns the error from run().  In the step that finds it the request has
\* been acknowledged, the handler is not invoked and nothing is published;
\* once run() has returned, no request is read, no handler is invoked and no
\* reply is published any more.
C20_BadRequestEndsServer ==
    /\ [][(srvPc = "ack" /\ srvAcked' = srvAcked + 1
                          /\ ~FromBytes(srvCur.data).ok) =>
            /\ srvPc' = "returned"
            /\ srvResult' = "SerializationError"
            /\ UNCHANGED <<invoked, srvSent, replyQ, reqQ, reqUnacked>>]_vars
    /\ [](srvResult = "SerializationError" =>
            /\ srvPc = "returned"
            /\ srvAcked = Len(invoked) + 1
            /\ Len(srvSent) = Len(invoked))
    /\ [][srvPc = "returned" =>
            /\ UNCHANGED <<srvPc, srvResult, srvCur, srvAcked, invoked, srvSent>>
            /\ Len(reqQ') >= Len(reqQ)]_vars

\* run() returned on a request that did not decode while a later request
\* is waiting on the queue
C20_Witness ==
    /\ srvPc = "returned"
    /\ srvResult = "SerializationError"
    /\ ~FromBytes(srvCur.data).ok
    /\ srvAcked = 1
    /\ invoked = << >>
    /\ srvSent = << >>
    /\ reqQ # << >>

\* the driver has reported a failure for the request in hand and
\* handle_request goes on from there
HandlerFailed ==
    /\ srvPc = "handler"
    /\ Handler(FromBytes(srvCur.data).val)[1] = "err"

C22_AbandonedReplyDiscarded ==
    [][\A c \in Callers :
         (/\ pc[c] = "dropped"
          /\ map[id[c]] = c
          /\ replyQ # << >>
          /\ replyQ' = Tail(replyQ)
          /\ TagOf(Head(replyQ)) = id[c]) =>
             /\ map'[id[c]] = 0
             /\ slot' = slot
             /\ UNCHANGED <<pc, result, txLost>>
             /\ rtrPc = "running" /\ rtrPc' = "running"
             /\ rtrResult' = rtrResult]_vars

\* the router has routed a reply to an abandoned call and is still running
C22_Witness ==
    \E c \in Callers :
        /\ pc[c] = "dropped"
        /\ completions[c] = 1
        /\ map[id[c]] = 0
        /\ rtrLast = [what |-> "matched", uuid |-> id[c]]
        /\ rtrPc = "running"
        /\ rtrResult = "none"

\* C23: when the stream of one route reports that its subscription has
\* closed, run() returns there and then, whatever the other routes hold:
\* the step dispatches nothing, and once run() has returned nothing more is
\* read from any route or dispatched.
C23_ExitOnFirstClosed ==
    /\ [](muxLast = "closed" => muxPc = "returned")
    /\ [][(muxLast' = "closed" /\ muxLast # "closed") =>
            /\ muxPc = "select" /\ muxPc' = "returned"
            /\ \E r \in Routes : muxSub[r] = "closed" /\ muxStream[r] = "next"
            /\ UNCHANGED <<muxDispatched, muxQ, muxStream>>]_vars
    /\ [][muxPc = "returned" =>
            /\ UNCHANGED <<muxPc, muxResult, muxLast, muxDispatched, muxStream,
                           muxHeld, muxLeft>>
            /\ \A r \in Routes : Len(muxQ'[r]) >= Len(muxQ[r])]_vars

\* run() returned on a closed route while another route is open with a
\* message waiting
C23_Witness ==
    /\ muxPc = "returned"
    /\ muxLast = "closed"
    /\ \E r, q \in Routes :
          /\ muxSub[r] = "closed"
          /\ muxSub[q] = "open"
          /\ muxQ[q] # << >>
          /\ q \in muxLeft

\* C24: once a send() has returned, with Ok or with an error, the table
\* holds no entry of that call, and with ids distinct none under the call's
\* id at all.  The table changes only in two ways: an entry appears under u
\* in the step in which a send() that drew u registers its slot, and an
\* entry disappears from under u in a step in which the router reads a
\* message tagged u; no step of send() takes an entry out.
C24_NoEntryAfterReturn ==
    /\ [](\A c \in Callers :
            pc[c] \in {"done", "failed"} =>
                /\ \A u \in Uuids : map[u] # c
                /\ (DistinctIds /\ id[c] # 0) => map[id[c]] = 0)
    /\ [][\A u \in Uuids :
            map'[u] # map[u] =>
                IF map'[u] = 0
                THEN /\ replyQ # << >>
                     /\ replyQ' = Tail(replyQ)
                     /\ TagOf(Head(replyQ)) = u
                     /\ UNCHANGED pc
                ELSE /\ pc[map'[u]] = "published"
                     /\ pc'[map'[u]] = "awaiting"
                     /\ id[map'[u]] = u]_vars

\* every call has returned, one with its reply and one with an error after
\* it had registered, and the table is empty
C24_Witness ==
    /\ \A c \in Callers : pc[c] \in {"done", "failed"}
    /\ \E c, d \in Callers :
          /\ pc[c] = "done"
          /\ pc[d] = "failed" /\ id[d] # 0 /\ completions[d] = 1
    /\ DistinctIds
    /\ \A u \in Uuids : map[u] = 0

\* C25: the router acknowledges no reply.  Every step that takes a message
\* off the reply queue, whether the router hands it to a call, finds no
\* entry for it or returns an error on its metadata, adds exactly that
\* delivery to the unacknowledged deliveries of the subscription, and no
\* step ever takes a delivery out of them.
C25_RepliesNeverAcked ==
    /\ [][Len(replyQ') < Len(replyQ) =>
            /\ replyQ' = Tail(replyQ)
            /\ replyUnacked' = replyUnacked (+) SetToBag({Head(replyQ)})]_vars
    /\ [][replyUnacked \sqsubseteq replyUnacked']_vars
    /\ [][replyUnacked' # replyUnacked =>
            rtrPc = "running" /\ Len(replyQ') < Len(replyQ)]_vars

\* three replies were read, one handed to a call, one without an entry and
\* one whose metadata ended the loop, and all three are unacknowledged
C25_Witness ==
    /\ BagCardinality(replyUnacked) = 3
    /\ rtrPc = "returned"
    /\ rtrResult \in {"CorrelationIdNotFound", "CorrelationIdNotUuid"}
    /\ \E c, d \in Callers :
          /\ pc[c] = "done" /\ pc[d] = "failed"
          /\ result[d].kind = "RecvError"
          /\ id[c] = id[d]

\* C26: a publish resolves to NotRequested exactly when its channel is not
\* in confirm mode, so as long as no channel is in confirm mode neither
\* assertion fails.  On a channel in confirm mode the publish resolves to
\* Ack or Nack and the assertion fails: send() stops in the very step in
\* which it would have registered its slot, with the table untouched, and
\* never gets an entry or a completion; handle_request stops after its
\* reply was published.  A call or a server stopped this way stays stopped.
C26_ConfirmAssertions ==
    /\ [](confirmSelect = {} =>
            /\ \A c \in Callers :
                  pc[c] # "panicked" /\ confirm[c] \in {"none", "NotRequested"}
            /\ srvPc # "panicked" /\ reply_confirm \in {"none", "NotRequested"})
    /\ [][\A c \in Callers :
            confirm'[c] # confirm[c] =>
                /\ pc[c] = "idle" /\ pc'[c] = "published"
                /\ confirm'[c] \in PublisherConfirm("client")]_vars
    /\ [][reply_confirm' # reply_confirm =>
            /\ srvPc = "handler" /\ srvPc' = "publishing"
            /\ reply_confirm' \in PublisherConfirm("server")]_vars
    /\ [][\A c \in Callers :
            (pc[c] = "published" /\ pc'[c] # "published") =>
                IF confirm[c] = "NotRequested"
                THEN pc'[c] = "awaiting" /\ map'[id[c]] = c
                ELSE pc'[c] = "panicked" /\ UNCHANGED <<map, slot, completions>>]_vars
    /\ [][(srvPc = "publishing" /\ srvPc' # "publishing") =>
            IF reply_confirm = "NotRequested"
            THEN srvPc' = "next"
            ELSE srvPc' = "panicked" /\ UNCHANGED <<replyQ, srvSent, srvResult>>]_vars
    /\ [](\A c \in Callers :
            pc[c] = "panicked" =>
                /\ confirm[c] \in {"Ack", "Nack"}
                /\ "client" \in confirmSelect
                /\ completions[c] = 0
                /\ \A u \in Uuids : map[u] # c)
    /\ [](srvPc = "panicked" =>
            /\ reply_confirm \in {"Ack", "Nack"}
            /\ "server" \in confirmSelect
            /\ srvResult = "none"
            /\ Len(srvSent) = Len(invoked))
    /\ [][\A c \in Callers : pc[c] = "panicked" => pc'[c] = "panicked"]_vars
    /\ [][srvPc = "panicked" => UNCHANGED <<srvPc, srvAcked, invoked, srvSent>>]_vars

\* one call went through on a channel that was not in confirm mode, the
\* next one was stopped by its assertion after an Ack with its request
\* published and no entry, and the server was stopped by its own
C26_Witness ==
    /\ \E c, d \in Callers :
          /\ pc[c] = "done" /\ confirm[c] = "NotRequested"
          /\ pc[d] = "panicked" /\ confirm[d] = "Ack"
          /\ \A u \in Uuids : map[u] # d
    /\ srvPc = "panicked"
    /\ Len(invoked) = 2

\* the request in hand lacks the metadata a reply needs
MissingMetadata == srvCur.reply_to = ReplyToAbsent \/ srvCur.corr = CorrAbsent

\* the error handle_request returns for it: reply_to is looked at first
MissingMetadataError ==
    IF srvCur.reply_to = ReplyToAbsent THEN "DidNotRecieveReply"
    ELSE "CorrelationIdNotFound"

\* C27: a request without reply_to or without correlation_id is
\* acknowledged and handed to the driver like any other; only when the
\* driver's value has been serialized does handle_request find the metadata
\* missing.  In that step it publishes nothing and run() returns
\* DidNotRecieveReply or CorrelationIdNotFound; afterwards the server reads
\* no further request.
C27_MissingMetadataAfterHandler ==
    /\ [](srvPc = "handler" =>
            /\ srvAcked = Len(invoked)
            /\ Len(invoked) = Len(srvSent) + 1
            /\ invoked[Len(invoked)] = FromBytes(srvCur.data).val)
    /\ [][(srvPc = "handler" /\ srvPc' # "handler" /\ MissingMetadata
                /\ ToAllocvec(Handler(FromBytes(srvCur.data).val)).ok) =>
            /\ srvPc' = "returned"
            /\ srvResult' = MissingMetadataError
            /\ UNCHANGED <<srvSent, replyQ, srvAcked, invoked, reqQ, reqUnacked>>]_vars
    /\ [](srvResult \in {"DidNotRecieveReply", "CorrelationIdNotFound"} =>
            /\ srvPc = "returned"
            /\ MissingMetadata /\ srvResult = MissingMetadataError
            /\ srvAcked = Len(invoked)
            /\ Len(invoked) = Len(srvSent) + 1
            /\ invoked[Len(invoked)] = FromBytes(srvCur.data).val)
    /\ [][(srvResult \in {"DidNotRecieveReply", "CorrelationIdNotFound"}) =>
            /\ UNCHANGED <<srvPc, srvResult, srvCur, srvAcked, invoked, srvSent>>
            /\ Len(reqQ') >= Len(reqQ)]_vars

\* a request that has a reply_to and no correlation id was acknowledged and
\* handled, nothing was published, run() returned CorrelationIdNotFound and
\* a request is still waiting on the queue
C27_Witness ==
    /\ srvPc = "returned"
    /\ srvResult = "CorrelationIdNotFound"
    /\ srvCur.reply_to # ReplyToAbsent
    /\ srvAcked = 1
    /\ Len(invoked) = 1
    /\ srvSent = << >>
    /\ reqQ # << >>

====
